---- MODULE Spec2Model ----
(***************************************************************************)
(* The live audio session manager of src/App.tsx: the session controller   *)
(* (startListening / stopListening / toggleListening and the callbacks     *)
(* registered with ai.live.connect), the playback scheduler                *)
(* (nextStartTimeRef, outputSourcesRef) and the transcription reconciler   *)
(* (the two accumulators and the conversation log).                        *)
(*                                                                         *)
(* JavaScript runs every handler to completion; a handler is one action.   *)
(* An async function is cut at each await whose promise is settled by the  *)
(* environment (getUserMedia, the handshake).  The await of                *)
(* decodeAudioData is settled within the same microtask checkpoint, so no  *)
(* other handler runs inside it; only the audio clock, which is driven by  *)
(* the rendering thread, may advance there.                                *)
(***************************************************************************)
EXTENDS Integers, Sequences, FiniteSets, TLC

\* ---------------------------------------------------------------- bounds
MaxSessions == 2     \* startListening invocations explored
MaxUnits == 2        \* playback units scheduled
MaxClock == 2        \* ticks of an output context's clock
MaxDur == 2          \* longest buffer duration, in clock ticks
MaxFrames == 1       \* capture frames per session
MaxCamera == 2       \* startCamera invocations explored
MaxVideo == 2        \* ticks of the video timer
MaxSamples == 1      \* samples of the array given to createBlob
Resolution == 3      \* input sample values per quantization step
MaxCapture == 3      \* audio frames captured in the capture pipeline's specification
MaxAcc == 3          \* longest transcription accumulator, in characters
MaxLog == 10         \* conversation log length up to which fragments append
MaxSends == 2        \* handleSend invocations explored
MaxNotices == 2      \* online and offline events explored
MaxChunks == 2       \* chunks of one streamed response
MaxText == 3         \* longest text given to useTypingEffect, in characters
MaxEdits == 2        \* changes of the text given to useTypingEffect

Scale == 32768       \* the factor of createBlob, the divisor of decodeAudioData

Sessions == 1..MaxSessions
Cameras == 1..MaxCamera

Chars == {"a", "b"}
Fragments == {<<c>> : c \in Chars}

Max(a, b) == IF a >= b THEN a ELSE b

\* ------------------------------------------------------------- variables
VARIABLES
  \* React state of App
  messages,          \* the conversation log: Seq([role, content])
  isListening,
  isLoading,
  isOffline,
  bootIndex,         \* position of runSequence in the startup sequence
  \* refs of App: 0 is null, s > 0 the object made by invocation s
  liveSessionRef,
  mediaStreamRef,
  scriptProcessorRef,
  mediaStreamSourceRef,
  inputAudioContextRef,
  outputAudioContextRef,
  outputSourcesRef,  \* the live-set: a set of indices of units
  nextStartTimeRef,
  currentInputTranscriptionRef,
  currentOutputTranscriptionRef,
  \* one startListening invocation s and the objects it made
  started,           \* number of startListening invocations so far
  pc,                \* where invocation s stands
  closureIsListening,\* isListening as captured by the callbacks of s
  conn,              \* the WebSocket of s
  tracks,            \* the MediaStream of s
  inCtx, outCtx,     \* the audio contexts made by s
  clock,             \* currentTime of the output context made by s
  procNode,          \* the ScriptProcessorNode made by onopen of s
  srcNode,           \* the MediaStreamAudioSourceNode made by onopen of s
  nodeCtx,           \* the input context the nodes of s belong to
  audioEvent,        \* an audioprocess event of the tap of s is queued
  captured,          \* frames the onaudioprocess handler of s has taken
  pendingSends,      \* the frames waiting on sessionPromise.then, oldest first
  calls,             \* the frames sendRealtimeInput was called with, in call order
  sent,              \* frames delivered to the socket of s
  \* playback
  units,             \* every AudioBufferSourceNode started so far, with the clock
                     \* its payload arrived at and the sched it was started after
  decoding,          \* the onmessage handler suspended at await decodeAudioData
  \* history, read by the properties only
  sched,             \* "init", "chained" or "interrupted"
  cancelled,         \* invocations that were pending when the user stopped
  stoppedOpen,       \* sessions that were open when the user stopped them
  tornOpen,          \* sessions that were open when stopListening ran
  redundant,         \* a stopListening released something already released
  inputSinceTurn,    \* user fragments handled since the last turn-complete
  userRun,           \* the entry the last user fragment wrote, 0 after a turn-complete
  modelRun,          \* the entry the last model fragment wrote, 0 after a turn-complete
  afterTurn,         \* a turn-complete has been handled
  \* UserInput: the camera preview and the video timer
  isCameraOpen,
  facingMode,
  streamRef,         \* the startCamera invocation whose stream the ref holds, or 0
  camStarted,        \* number of startCamera invocations so far
  camPc,             \* where startCamera invocation c stands
  camTracks,         \* the camera stream of invocation c
  consoleErrors,     \* what console.error was called with
  ticks,             \* ticks of the video timer so far
  videoEmitted,      \* calls of onVideoFrame so far
  videoCalls,        \* calls of sendRealtimeInput with an image on session s
  videoSent,         \* images delivered to the socket of s
  \* the codec
  data,              \* the Float32Array given to createBlob, each sample times
                     \* Scale * Resolution
  pcm,               \* the bytes createBlob made of it
  audioBuffer,       \* what decodeAudioData made of a payload: the error it
                     \* threw, or the channel data in the unit of data
  \* the text chat of App
  chatRef,           \* chatRef.current holds a chat
  chatPc,            \* where the handleSend invocation stands
  responseText,      \* the local 'text' of the stream loop
  responseIndex,     \* position of the entry appended for the response, 0 if none
  sends,             \* handleSend invocations so far
  notices,           \* online and offline events so far
  \* useTypingEffect of one TypingMessageBubble
  fullText,          \* the text given to the hook
  typedText,         \* its state
  typingTimer,       \* the timeout of its effect is pending
  edits              \* changes of fullText so far

reactVars == <<messages, isListening, isLoading, isOffline, bootIndex>>
refVars == <<liveSessionRef, mediaStreamRef, scriptProcessorRef, mediaStreamSourceRef,
             inputAudioContextRef, outputAudioContextRef>>
transVars == <<currentInputTranscriptionRef, currentOutputTranscriptionRef, inputSinceTurn,
               userRun, modelRun, afterTurn>>
playVars == <<outputSourcesRef, nextStartTimeRef, units, decoding, sched>>
invVars == <<started, pc, closureIsListening>>
objVars == <<conn, tracks, inCtx, outCtx, procNode, srcNode, nodeCtx>>
frameVars == <<audioEvent, captured, pendingSends, calls, sent>>
histVars == <<cancelled, stoppedOpen, tornOpen, redundant>>

camVars == <<isCameraOpen, facingMode, streamRef, camStarted, camPc, camTracks,
             consoleErrors>>
videoVars == <<ticks, videoEmitted, videoCalls, videoSent>>

\* What App holds, and what UserInput and the codec hold.
sessionVars == <<reactVars, refVars, transVars, playVars, invVars, objVars, frameVars,
                 histVars, clock>>
codecVars == <<data, pcm, audioBuffer>>
chatVars == <<chatRef, chatPc, responseText, responseIndex, sends, notices>>
typingVars == <<fullText, typedText, typingTimer, edits>>
textVars == <<chatVars, typingVars>>
auxVars == <<camVars, videoVars, codecVars, textVars>>

vars == <<sessionVars, auxVars>>

\* ------------------------------------------------------------ log entries
Entry(r, c) == [role |-> r, content |-> c]

\* A fixed text of the program, as one character the fragments never hold.
Notice(t) == <<t>>

startupSequence ==
  << Notice("BOOTING ISAAC v3.1 MOBILE..."),
     Notice("ACCESSING NEURAL CORE... [OK]"),
     Notice("CALIBRATING LOGIC MATRIX... [OK]"),
     Notice("LOADING DIRECTIVES... [OK]"),
     Notice("[ I ]"),
     Notice("STATUS: ONLINE. AWAITING DIRECTIVES.") >>

VoiceOpen == Entry("model", Notice("VOICE CHANNEL OPEN. LISTENING..."))
VoiceClosed == Entry("model", Notice("VOICE CHANNEL CLOSED."))
OfflineVoice == Entry("error", Notice("OFFLINE: Voice commands unavailable."))
MicrophoneError == Entry("error", Notice("MICROPHONE_ERROR"))
LiveSessionError == Entry("error", Notice("LIVE_SESSION_ERROR"))

NoDecode == [sess |-> 0]

\* No onmessage handler is suspended: another handler may run.
Idle == decoding = NoDecode

InitSession ==
  /\ messages = <<>>
  /\ isListening = FALSE
  /\ isLoading = TRUE
  /\ isOffline = FALSE
  /\ bootIndex = 0
  /\ liveSessionRef = 0
  /\ mediaStreamRef = 0
  /\ scriptProcessorRef = 0
  /\ mediaStreamSourceRef = 0
  /\ inputAudioContextRef = 0
  /\ outputAudioContextRef = 0
  /\ outputSourcesRef = {}
  /\ nextStartTimeRef = 0
  /\ currentInputTranscriptionRef = <<>>
  /\ currentOutputTranscriptionRef = <<>>
  /\ started = 0
  /\ pc = [s \in Sessions |-> "idle"]
  /\ closureIsListening = [s \in Sessions |-> FALSE]
  /\ conn = [s \in Sessions |-> "none"]
  /\ tracks = [s \in Sessions |-> "none"]
  /\ inCtx = [s \in Sessions |-> "none"]
  /\ outCtx = [s \in Sessions |-> "none"]
  /\ clock = [s \in Sessions |-> 0]
  /\ procNode = [s \in Sessions |-> "none"]
  /\ srcNode = [s \in Sessions |-> "none"]
  /\ nodeCtx = [s \in Sessions |-> 0]
  /\ audioEvent = [s \in Sessions |-> FALSE]
  /\ captured = [s \in Sessions |-> 0]
  /\ pendingSends = [s \in Sessions |-> <<>>]
  /\ calls = [s \in Sessions |-> <<>>]
  /\ sent = [s \in Sessions |-> 0]
  /\ units = <<>>
  /\ decoding = NoDecode
  /\ sched = "init"
  /\ cancelled = {}
  /\ stoppedOpen = {}
  /\ tornOpen = {}
  /\ redundant = FALSE
  /\ inputSinceTurn = <<>>
  /\ userRun = 0
  /\ modelRun = 0
  /\ afterTurn = FALSE
  /\ isCameraOpen = FALSE
  /\ facingMode = "user"
  /\ streamRef = 0
  /\ camStarted = 0
  /\ camPc = [c \in Cameras |-> "idle"]
  /\ camTracks = [c \in Cameras |-> "none"]
  /\ consoleErrors = <<>>
  /\ ticks = 0
  /\ videoEmitted = 0
  /\ videoCalls = [s \in Sessions |-> 0]
  /\ videoSent = [s \in Sessions |-> 0]
  /\ chatRef = FALSE
  /\ chatPc = "idle"
  /\ responseText = <<>>
  /\ responseIndex = 0
  /\ sends = 0
  /\ notices = 0

\* Nothing was encoded or decoded yet.
InitCodecIdle ==
  /\ pcm = <<>>
  /\ audioBuffer = [error |-> "", channelData |-> <<>>]

\* No TypingMessageBubble is mounted.
InitTypingIdle ==
  /\ fullText = <<>>
  /\ typedText = <<>>
  /\ typingTimer = FALSE
  /\ edits = 0

Init ==
  /\ InitSession
  /\ data = <<>>
  /\ InitCodecIdle
  /\ InitTypingIdle

\* The sample values in [-1, 1], both endpoints included.
SampleValues == (-(Scale * Resolution))..(Scale * Resolution)

\* The codec is given an array of 1..MaxSamples samples of one value.
InitCodec ==
  /\ InitSession
  /\ \E n \in 1..MaxSamples, x \in SampleValues : data = [i \in 1..n |-> x]
  /\ InitCodecIdle
  /\ InitTypingIdle

\* ------------------------------------------------------- startup sequence
\* One timer of runSequence fires: the next boot line is appended, and the
\* last one ends the loading state.
RunSequence ==
  /\ Idle
  /\ bootIndex < Len(startupSequence)
  /\ bootIndex' = bootIndex + 1
  /\ messages' = Append(messages, Entry("model", startupSequence[bootIndex + 1]))
  /\ isLoading' = IF bootIndex + 1 = Len(startupSequence) THEN FALSE ELSE isLoading
  /\ UNCHANGED <<isListening, isOffline, refVars, transVars, playVars, invVars,
                 objVars, frameVars, histVars, clock>>
  /\ UNCHANGED auxVars

\* ------------------------------------------------------------ stopListening
\* session.close(): an open socket starts closing; its close event follows.
SessionClose(c, s) ==
  IF s # 0 /\ c[s] = "open" THEN [c EXCEPT ![s] = "closing"] ELSE c

\* track.stop() on every track of stream s.
TracksStop(s) ==
  IF s # 0 THEN [tracks EXCEPT ![s] = "stopped"] ELSE tracks

\* node.disconnect() on the node of invocation s.
Disconnect(node, s) ==
  IF s # 0 THEN [node EXCEPT ![s] = "disconnected"] ELSE node

\* ctx.close() under the guard ctx.state !== 'closed'.  The state attribute
\* turns 'closed' only when the close settles (AudioContextClosed).
ContextClose(ctx, s) ==
  IF s # 0 /\ ctx[s] # "closed" THEN [ctx EXCEPT ![s] = "closing"] ELSE ctx

\* A teardown that stops no unit.
SourcesStopNone(U) == units

\* source.stop() on every unit of U.
SourcesStop(U) ==
  [i \in DOMAIN units |->
     IF i \in U /\ units[i].st = "started"
     THEN [units[i] EXCEPT !.st = "stopped"] ELSE units[i]]

\* Whether this call of stopListening invokes a release operation on an
\* object an earlier call has released already.
ReleasesAgain(c) ==
  \/ liveSessionRef # 0 /\ c[liveSessionRef] = "closing"
  \/ mediaStreamRef # 0 /\ tracks[mediaStreamRef] = "stopped"
  \/ scriptProcessorRef # 0 /\ procNode[scriptProcessorRef] = "disconnected"
  \/ mediaStreamSourceRef # 0 /\ srcNode[mediaStreamSourceRef] = "disconnected"
  \/ inputAudioContextRef # 0 /\ inCtx[inputAudioContextRef] = "closing"
  \/ outputAudioContextRef # 0 /\ outCtx[outputAudioContextRef] = "closing"
  \/ \E u \in outputSourcesRef : units[u].st = "stopped"

\* The controller is Open on session s: it listens, and the handle, the
\* stream, the contexts and the tap it holds are those of s.
Open(s) ==
  /\ isListening
  /\ conn[s] = "open"
  /\ liveSessionRef = s
  /\ mediaStreamRef = s
  /\ inputAudioContextRef = s
  /\ outputAudioContextRef = s
  /\ scriptProcessorRef = s
  /\ mediaStreamSourceRef = s

\* stopListening, called with the sockets as the caller leaves them.  It
\* writes every variable named here and no other.
StopListening(c) ==
  /\ conn' = SessionClose(c, liveSessionRef)
  /\ liveSessionRef' = 0
  /\ tracks' = TracksStop(mediaStreamRef)
  /\ mediaStreamRef' = 0
  /\ procNode' = Disconnect(procNode, scriptProcessorRef)
  /\ scriptProcessorRef' = 0
  /\ srcNode' = Disconnect(srcNode, mediaStreamSourceRef)
  /\ mediaStreamSourceRef' = 0
  /\ inCtx' = ContextClose(inCtx, inputAudioContextRef)
  /\ outCtx' = ContextClose(outCtx, outputAudioContextRef)
  /\ UNCHANGED <<inputAudioContextRef, outputAudioContextRef>>
  /\ units' = SourcesStop(outputSourcesRef)
  /\ outputSourcesRef' = {}
  /\ isListening' = FALSE
  /\ isLoading' = FALSE
  /\ redundant' = (redundant \/ ReleasesAgain(c))
  /\ tornOpen' = tornOpen \cup {s \in Sessions : Open(s)}

\* What stopListening leaves alone, besides messages and the invocations.
StopFrame ==
  UNCHANGED <<isOffline, bootIndex, transVars, nextStartTimeRef, decoding, sched,
              nodeCtx, frameVars, clock, started, closureIsListening>>

\* ------------------------------------------------------------ startListening
Pending(s) == pc[s] \in {"getUserMedia", "connect"}

\* An onclose that reads the live isListening: TRUE while a session runs.
CapturedIsListeningLive == TRUE

\* The isListening the callbacks of a startListening close over: that of
\* the render whose toggleListening called it.
CapturedIsListening == isListening

\* startListening up to its first await.  The callbacks it will register
\* close over the isListening of the render that made this startListening.
StartListening ==
  /\ started < MaxSessions
  /\ IF isOffline
     THEN /\ messages' = Append(messages, OfflineVoice)
          /\ UNCHANGED <<isListening, isLoading, invVars>>
     ELSE /\ isListening' = TRUE
          /\ isLoading' = TRUE
          /\ messages' = Append(messages, VoiceOpen)
          /\ started' = started + 1
          /\ pc' = [pc EXCEPT ![started + 1] = "getUserMedia"]
          /\ closureIsListening' = [closureIsListening EXCEPT ![started + 1] = CapturedIsListening]
  /\ UNCHANGED <<isOffline, bootIndex, refVars, transVars, playVars, objVars,
                 frameVars, histVars, clock>>

\* The mic button of UserInput is disabled while loading and not listening;
\* the one of the camera preview is never disabled.
MicEnabled == ~(isLoading /\ ~isListening)

ToggleListening ==
  /\ Idle
  /\ MicEnabled \/ isCameraOpen
  /\ \/ /\ isListening
        /\ StopListening(conn)
        /\ messages' = Append(messages, VoiceClosed)
        /\ cancelled' = cancelled \cup {s \in Sessions : Pending(s)}
        /\ stoppedOpen' = stoppedOpen \cup {s \in Sessions : Open(s)}
        /\ UNCHANGED pc
        /\ StopFrame
     \/ /\ ~isListening
        /\ StartListening
  /\ UNCHANGED auxVars

\* getUserMedia resolves: the stream is kept, both contexts are made and
\* the handshake starts.
GetUserMediaResolves(s) ==
  /\ Idle
  /\ pc[s] = "getUserMedia"
  /\ pc' = [pc EXCEPT ![s] = "connect"]
  /\ mediaStreamRef' = s
  /\ tracks' = [tracks EXCEPT ![s] = "live"]
  /\ inputAudioContextRef' = s
  /\ outputAudioContextRef' = s
  /\ inCtx' = [inCtx EXCEPT ![s] = "running"]
  /\ outCtx' = [outCtx EXCEPT ![s] = "running"]
  /\ conn' = [conn EXCEPT ![s] = "connecting"]
  /\ UNCHANGED <<reactVars, liveSessionRef, scriptProcessorRef, mediaStreamSourceRef,
                 transVars, playVars, started, closureIsListening, procNode, srcNode,
                 nodeCtx, frameVars, histVars, clock>>
  /\ UNCHANGED auxVars

\* The catch block of startListening.
Catch(s, c) ==
  /\ pc' = [pc EXCEPT ![s] = "failed"]
  /\ messages' = Append(messages, MicrophoneError)
  /\ StopListening(c)
  /\ UNCHANGED <<cancelled, stoppedOpen>>
  /\ StopFrame
  /\ UNCHANGED auxVars

\* getUserMedia rejects: microphone access denied.
GetUserMediaRejects(s) ==
  /\ Idle
  /\ pc[s] = "getUserMedia"
  /\ Catch(s, conn)

\* ai.live.connect rejects before the socket opens.
ConnectRejects(s) ==
  /\ Idle
  /\ pc[s] = "connect"
  /\ conn[s] = "connecting"
  /\ Catch(s, [conn EXCEPT ![s] = "closed"])

\* onopen: the capture tap is built on the current input context and wired.
OnOpen(s) ==
  /\ Idle
  /\ conn[s] = "connecting"
  /\ conn' = [conn EXCEPT ![s] = "open"]
  /\ isLoading' = FALSE
  /\ mediaStreamSourceRef' = s
  /\ scriptProcessorRef' = s
  /\ srcNode' = [srcNode EXCEPT ![s] = "connected"]
  /\ procNode' = [procNode EXCEPT ![s] = "connected"]
  /\ nodeCtx' = [nodeCtx EXCEPT ![s] = inputAudioContextRef]
  /\ UNCHANGED <<messages, isListening, isOffline, bootIndex, liveSessionRef,
                 mediaStreamRef, inputAudioContextRef, outputAudioContextRef,
                 transVars, playVars, invVars, tracks, inCtx, outCtx, frameVars,
                 histVars, clock>>
  /\ UNCHANGED auxVars

\* A socket that takes a frame whatever its state.
DeliverClosed(s, n) == sent[s] + n

\* The socket delivers a frame only while it is open.
Deliver(s, n) == IF conn[s] = "open" THEN sent[s] + n ELSE sent[s]

\* sessionPromise.then(...): the reaction for frame f joins those that wait.
SessionPromiseThen(q, f) == Append(q, f)

\* Reactions whose calls go ahead of the calls made before.
SendRealtimeInputNewestFirst(c, q) == q \o c

\* The reactions run in turn: one sendRealtimeInput call for each frame of q.
SendRealtimeInput(c, q) == c \o q

\* sessionPromise resolves after onopen: the handle is stored, and the
\* sends that waited on the promise run.
ConnectResolves(s) ==
  /\ Idle
  /\ pc[s] = "connect"
  /\ procNode[s] # "none"
  /\ pc' = [pc EXCEPT ![s] = "done"]
  /\ liveSessionRef' = s
  /\ calls' = [calls EXCEPT ![s] = SendRealtimeInput(calls[s], pendingSends[s])]
  /\ sent' = [sent EXCEPT ![s] = Deliver(s, Len(pendingSends[s]))]
  /\ pendingSends' = [pendingSends EXCEPT ![s] = <<>>]
  /\ UNCHANGED <<audioEvent, captured>>
  /\ UNCHANGED <<reactVars, mediaStreamRef, scriptProcessorRef, mediaStreamSourceRef,
                 inputAudioContextRef, outputAudioContextRef, transVars, playVars,
                 started, closureIsListening, objVars, histVars, clock>>
  /\ UNCHANGED auxVars

\* The audio thread fills a buffer of the wired tap of s and queues the
\* audioprocess event for it.
AudioProcess(s) ==
  /\ procNode[s] = "connected"
  /\ nodeCtx[s] # 0
  /\ inCtx[nodeCtx[s]] = "running"
  /\ ~audioEvent[s]
  /\ audioEvent' = [audioEvent EXCEPT ![s] = TRUE]
  /\ UNCHANGED <<reactVars, refVars, transVars, playVars, invVars, objVars,
                 captured, pendingSends, calls, sent, histVars, clock>>
  /\ UNCHANGED auxVars

\* onaudioprocess: the queued event is handled.  One frame is captured and
\* handed to sessionPromise.then, whose reactions run at once when the
\* promise has resolved.
OnAudioProcess(s) ==
  /\ Idle
  /\ audioEvent[s]
  /\ audioEvent' = [audioEvent EXCEPT ![s] = FALSE]
  /\ captured' = [captured EXCEPT ![s] = captured[s] + 1]
  /\ LET q == SessionPromiseThen(pendingSends[s], captured[s] + 1)
     IN IF pc[s] = "done"
        THEN /\ calls' = [calls EXCEPT ![s] = SendRealtimeInput(calls[s], q)]
             /\ sent' = [sent EXCEPT ![s] = Deliver(s, Len(q))]
             /\ pendingSends' = [pendingSends EXCEPT ![s] = <<>>]
        ELSE /\ pendingSends' = [pendingSends EXCEPT ![s] = q]
             /\ UNCHANGED <<calls, sent>>
  /\ UNCHANGED <<reactVars, refVars, transVars, playVars, invVars, objVars,
                 histVars, clock>>
  /\ UNCHANGED auxVars

\* onerror: the socket failed; its close event follows.
OnError(s) ==
  /\ Idle
  /\ conn[s] \in {"connecting", "open"}
  /\ messages' = Append(messages, LiveSessionError)
  /\ StopListening([conn EXCEPT ![s] = "failed"])
  /\ UNCHANGED <<pc, cancelled, stoppedOpen>>
  /\ StopFrame
  /\ UNCHANGED auxVars

\* onclose: the close event of socket s, after a local close, after an
\* error, or because the remote end closed an open socket.
OnClose(s) ==
  /\ Idle
  /\ conn[s] \in {"open", "closing", "failed"}
  /\ IF closureIsListening[s]
     THEN /\ messages' = Append(messages, VoiceClosed)
          /\ StopListening([conn EXCEPT ![s] = "closed"])
          /\ StopFrame
     ELSE /\ conn' = [conn EXCEPT ![s] = "closed"]
          /\ UNCHANGED <<reactVars, refVars, transVars, playVars, started,
                         closureIsListening, tracks, inCtx, outCtx, procNode, srcNode,
                         nodeCtx, frameVars, redundant, tornOpen, clock>>
  /\ UNCHANGED <<pc, cancelled, stoppedOpen>>
  /\ UNCHANGED auxVars

\* A close() of an audio context settles: its state attribute reads 'closed'.
AudioContextClosed(s) ==
  /\ Idle
  /\ \/ /\ inCtx[s] = "closing"
        /\ inCtx' = [inCtx EXCEPT ![s] = "closed"]
        /\ UNCHANGED outCtx
     \/ /\ outCtx[s] = "closing"
        /\ outCtx' = [outCtx EXCEPT ![s] = "closed"]
        /\ UNCHANGED inCtx
  /\ UNCHANGED <<reactVars, refVars, transVars, playVars, invVars, conn, tracks,
                 procNode, srcNode, nodeCtx, frameVars, histVars, clock>>
  /\ UNCHANGED auxVars

\* ------------------------------------------------- transcription reconciler
\* prev.map(m => m.role).lastIndexOf(r), counted from 1; 0 when there is none.
LastIndexOf(log, r) ==
  LET I == {i \in 1..Len(log) : log[i].role = r}
  IN IF I = {} THEN 0 ELSE CHOOSE i \in I : \A j \in I : j <= i

\* s.includes(t)
Includes(s, t) ==
  \E i \in 0..(Len(s) - Len(t)) : SubSeq(s, i + 1, i + Len(t)) = t

\* acc.slice(0, -n): slice(0, -0) is the empty string.
SliceOff(acc, n) == IF n = 0 THEN <<>> ELSE SubSeq(acc, 1, Len(acc) - n)

\* A reconciler that appends an entry for every fragment.
InputReconcileAppend(log, acc) == Append(log, Entry("user", acc))

\* The setMessages updater of the inputTranscription branch.
InputReconcile(log, acc) ==
  LET lastMsgIndex == LastIndexOf(log, "user")
      lastModelMsgIndex == LastIndexOf(log, "model")
  IN IF lastMsgIndex > lastModelMsgIndex
     THEN [log EXCEPT ![lastMsgIndex] = Entry("user", acc)]
     ELSE Append(log, Entry("user", acc))

\* The setMessages updater of the outputTranscription branch.
OutputReconcile(log, acc, text) ==
  LET lastMsgIndex == LastIndexOf(log, "model")
  IN IF lastMsgIndex # 0
        /\ Includes(log[lastMsgIndex].content, SliceOff(acc, Len(text)))
     THEN [log EXCEPT ![lastMsgIndex] = Entry("model", acc)]
     ELSE Append(log, Entry("model", acc))

\* The index the inputTranscription updater writes in log.
InputTarget(log) ==
  IF LastIndexOf(log, "user") > LastIndexOf(log, "model")
  THEN LastIndexOf(log, "user") ELSE Len(log) + 1

\* The index the outputTranscription updater writes in log.
OutputTarget(log, acc, text) ==
  IF Len(OutputReconcile(log, acc, text)) > Len(log)
  THEN Len(log) + 1 ELSE LastIndexOf(log, "model")

\* ------------------------------------------------------------- onmessage
\* An inbound LiveServerMessage: absent parts are <<>>, 0 and FALSE.
Message(in, out, a, tc, int) ==
  [input |-> in, output |-> out, audio |-> a, turnComplete |-> tc, interrupted |-> int,
   truncated |-> FALSE]

\* The same message with its audio payload cut to an odd number of bytes.
Truncated(m) == [m EXCEPT !.truncated = TRUE]

\* Both accumulators and the log after the two transcription branches.
AccIn(m) == currentInputTranscriptionRef \o m.input
AccOut(m) == currentOutputTranscriptionRef \o m.output
LogIn(m) == IF m.input # <<>> THEN InputReconcile(messages, AccIn(m)) ELSE messages
LogOut(m) == IF m.output # <<>> THEN OutputReconcile(LogIn(m), AccOut(m), m.output)
             ELSE LogIn(m)

\* A scheduler that sets the cursor to the clock.
ClampStartNow(next, now) == now

\* A scheduler that starts at the cursor without the clamp.
ClampStartUnclamped(next, now) == next

\* The value the clamp of the audio branch stores in nextStartTimeRef.
ClampStart(next, now) == Max(next, now)

\* A scheduler that assigns the duration to the cursor.
AdvanceStartAssign(next, d) == d

\* A scheduler that leaves the cursor where the unit started.
AdvanceStartNone(next, d) == next

\* The cursor after a unit of duration d was started at the cursor.
AdvanceStart(next, d) == next + d

\* An interrupted branch that keeps the cursor.
ResetStartStale == nextStartTimeRef

\* The cursor the interrupted branch stores.
ResetStart == 0

\* A turnComplete and interrupted branch that also empties the accumulators
\* on interrupted.
FlagsClearOnInterrupt(tc, int, U, L, n, accI, accO) ==
  /\ currentInputTranscriptionRef' = IF tc \/ int THEN <<>> ELSE accI
  /\ currentOutputTranscriptionRef' = IF tc \/ int THEN <<>> ELSE accO
  /\ units' = IF int
              THEN [i \in DOMAIN U |->
                      IF i \in L /\ U[i].st = "started"
                      THEN [U[i] EXCEPT !.st = "stopped"] ELSE U[i]]
              ELSE U
  /\ outputSourcesRef' = IF int THEN {} ELSE L
  /\ nextStartTimeRef' = IF int THEN 0 ELSE n

\* The turnComplete and interrupted branches, which end the handler.  U, L
\* and n are the units, the live-set and the cursor as the audio branch
\* leaves them; accI and accO the accumulators.
Flags(tc, int, U, L, n, accI, accO) ==
  /\ currentInputTranscriptionRef' = IF tc THEN <<>> ELSE accI
  /\ currentOutputTranscriptionRef' = IF tc THEN <<>> ELSE accO
  /\ units' = IF int
              THEN [i \in DOMAIN U |->
                      IF i \in L /\ U[i].st = "started"
                      THEN [U[i] EXCEPT !.st = "stopped"] ELSE U[i]]
              ELSE U
  /\ outputSourcesRef' = IF int THEN {} ELSE L
  /\ nextStartTimeRef' = IF int THEN ResetStart ELSE n

\* onmessage of session s for message m, up to await decodeAudioData when
\* the message carries audio, and to its end when it does not.
OnMessage(s, m) ==
  /\ Idle
  /\ conn[s] = "open"
  /\ Len(AccIn(m)) <= MaxAcc
  /\ Len(AccOut(m)) <= MaxAcc
  /\ Len(LogOut(m)) <= MaxLog
  /\ messages' = LogOut(m)
  /\ IF m.audio > 0
     THEN /\ Len(units) < MaxUnits
          /\ currentInputTranscriptionRef' = AccIn(m)
          /\ currentOutputTranscriptionRef' = AccOut(m)
          /\ nextStartTimeRef' =
               ClampStart(nextStartTimeRef, clock[outputAudioContextRef])
          /\ decoding' = [sess |-> s, dur |-> m.audio, ctx |-> outputAudioContextRef,
                          turnComplete |-> m.turnComplete, interrupted |-> m.interrupted,
                          truncated |-> m.truncated,
                          before |-> nextStartTimeRef,
                          arrival |-> clock[outputAudioContextRef]]
          /\ inputSinceTurn' = inputSinceTurn \o m.input
          /\ userRun' = IF m.input # <<>> THEN InputTarget(messages) ELSE userRun
          /\ modelRun' = IF m.output # <<>>
                         THEN OutputTarget(LogIn(m), AccOut(m), m.output) ELSE modelRun
          /\ UNCHANGED <<units, outputSourcesRef, sched, afterTurn>>
     ELSE /\ Flags(m.turnComplete, m.interrupted, units, outputSourcesRef,
                   nextStartTimeRef, AccIn(m), AccOut(m))
          /\ inputSinceTurn' = IF m.turnComplete THEN <<>> ELSE inputSinceTurn \o m.input
          /\ userRun' = IF m.turnComplete THEN 0
                        ELSE IF m.input # <<>> THEN InputTarget(messages)
                        ELSE userRun
          /\ modelRun' = IF m.turnComplete THEN 0
                         ELSE IF m.output # <<>>
                         THEN OutputTarget(LogIn(m), AccOut(m), m.output)
                         ELSE modelRun
          /\ afterTurn' = (afterTurn \/ m.turnComplete)
          /\ sched' = IF m.interrupted THEN "interrupted" ELSE sched
          /\ UNCHANGED decoding
  /\ UNCHANGED <<isListening, isLoading, isOffline, bootIndex, refVars, invVars,
                 objVars, frameVars, histVars, clock>>
  /\ UNCHANGED auxVars

\* onmessage resumes after await decodeAudioData: the unit is started at the
\* cursor, the cursor advances, the unit joins the live-set; then the
\* turnComplete and interrupted branches run.  When decodeAudioData threw
\* (DecodeAudioData: a payload of odd length), the await throws and the
\* handler ends there.
OnMessageResume ==
  /\ decoding # NoDecode
  /\ IF decoding.truncated
     THEN UNCHANGED <<transVars, outputSourcesRef, nextStartTimeRef, units, sched>>
     ELSE /\ LET unit == [start |-> nextStartTimeRef, dur |-> decoding.dur,
                          st |-> "started", ctx |-> decoding.ctx,
                          arrival |-> decoding.arrival, after |-> sched]
             IN Flags(decoding.turnComplete, decoding.interrupted,
                      Append(units, unit), outputSourcesRef \cup {Len(units) + 1},
                      AdvanceStart(nextStartTimeRef, decoding.dur),
                      currentInputTranscriptionRef, currentOutputTranscriptionRef)
          /\ sched' = IF decoding.interrupted THEN "interrupted" ELSE "chained"
          /\ inputSinceTurn' = IF decoding.turnComplete THEN <<>> ELSE inputSinceTurn
          /\ userRun' = IF decoding.turnComplete THEN 0 ELSE userRun
          /\ modelRun' = IF decoding.turnComplete THEN 0 ELSE modelRun
          /\ afterTurn' = (afterTurn \/ decoding.turnComplete)
  /\ decoding' = NoDecode
  /\ UNCHANGED <<reactVars, refVars, invVars, objVars, frameVars, histVars, clock>>
  /\ UNCHANGED auxVars

\* The 'ended' listener of unit u: it fires once the unit was stopped, or
\* played to its end on a running context.
Ended(u) ==
  /\ Idle
  /\ u \in DOMAIN units
  /\ \/ units[u].st = "stopped"
     \/ /\ units[u].st = "started"
        /\ outCtx[units[u].ctx] = "running"
        /\ clock[units[u].ctx] >= units[u].start + units[u].dur
  /\ units' = [units EXCEPT ![u].st = "ended"]
  /\ outputSourcesRef' = outputSourcesRef \ {u}
  /\ UNCHANGED <<reactVars, refVars, transVars, nextStartTimeRef, decoding, sched,
                 invVars, objVars, frameVars, histVars, clock>>
  /\ UNCHANGED auxVars

\* The rendering thread advances the clock of a running output context.
Tick(s) ==
  /\ outCtx[s] = "running"
  /\ clock[s] < MaxClock
  /\ clock' = [clock EXCEPT ![s] = clock[s] + 1]
  /\ UNCHANGED <<reactVars, refVars, transVars, playVars, invVars, objVars,
                 frameVars, histVars>>
  /\ UNCHANGED auxVars

\* ------------------------------------------------------------------ codec
\* The integer part of x / Resolution, as the conversion of a Number to an
\* integer takes it: towards zero.
Trunc(x) == IF x >= 0 THEN x \div Resolution ELSE -((-x) \div Resolution)

\* The store into an Int16Array element: the integer modulo 2^16, read as a
\* two's complement value.
ToInt16(v) == ((v + 32768) % 65536) - 32768

\* int16[i] = data[i] * 32768, for the sample x / (Scale * Resolution).
Int16Of(x) == ToInt16(Trunc(x))

\* new Uint8Array(int16.buffer): two bytes for each element, low byte first.
Uint8Of(v) == <<(v + 65536) % 256, ((v + 65536) % 65536) \div 256>>

RECURSIVE Flatten(_)
Flatten(ss) == IF ss = <<>> THEN <<>> ELSE Head(ss) \o Flatten(Tail(ss))

\* The bytes createBlob makes of an array of samples.
CreateBlobBytes(d) == Flatten([i \in DOMAIN d |-> Uint8Of(Int16Of(d[i]))])

\* Element i of new Int16Array(bytes.buffer).
Int16At(bytes, i) ==
  LET u == bytes[2 * i - 1] + 256 * bytes[2 * i]
  IN IF u >= 32768 THEN u - 65536 ELSE u

\* decodeAudioData on one channel: new Int16Array(data.buffer) throws a
\* RangeError when the byte length is odd; element v becomes v / 32768.
DecodeAudioData(bytes) ==
  IF Len(bytes) % 2 # 0
  THEN [error |-> "RangeError", channelData |-> <<>>]
  ELSE [error |-> "",
        channelData |-> [i \in 1..(Len(bytes) \div 2) |->
                           Int16At(bytes, i) * Resolution]]

\* createBlob(data)
CreateBlob ==
  /\ data # <<>>
  /\ pcm = <<>>
  /\ pcm' = CreateBlobBytes(data)
  /\ UNCHANGED <<data, audioBuffer, sessionVars, textVars, camVars, videoVars>>

\* decodeAudioData of a payload: the first n bytes that createBlob made.
DecodeAudio(n) ==
  /\ pcm # <<>>
  /\ audioBuffer = [error |-> "", channelData |-> <<>>]
  /\ n \in 1..Len(pcm)
  /\ audioBuffer' = DecodeAudioData(SubSeq(pcm, 1, n))
  /\ UNCHANGED <<data, pcm, sessionVars, textVars, camVars, videoVars>>

\* --------------------------------------------------- camera and video timer
\* startCamera up to its await: the tracks of the stream the ref holds are
\* stopped, the ref keeps the stream, and getUserMedia is pending.
StartCamera ==
  /\ camStarted < MaxCamera
  /\ camStarted' = camStarted + 1
  /\ camPc' = [camPc EXCEPT ![camStarted + 1] = "getUserMedia"]
  /\ camTracks' = IF streamRef # 0
                  THEN [camTracks EXCEPT ![streamRef] = "stopped"] ELSE camTracks
  /\ UNCHANGED <<streamRef, consoleErrors>>

\* handleCameraClick: the camera button, disabled while loading and covered
\* by the preview while it is open.
HandleCameraClick ==
  /\ Idle
  /\ ~isLoading
  /\ ~isCameraOpen
  /\ isCameraOpen' = TRUE
  /\ facingMode' = "user"
  /\ StartCamera
  /\ UNCHANGED <<sessionVars, textVars, codecVars, videoVars>>

\* handleSwitchCamera: the SWITCH button of the preview.
HandleSwitchCamera ==
  /\ Idle
  /\ isCameraOpen
  /\ facingMode' = IF facingMode = "user" THEN "environment" ELSE "user"
  /\ StartCamera
  /\ UNCHANGED <<isCameraOpen, sessionVars, textVars, codecVars, videoVars>>

\* getUserMedia of startCamera invocation c resolves: the ref takes its stream.
CameraResolves(c) ==
  /\ Idle
  /\ camPc[c] = "getUserMedia"
  /\ camPc' = [camPc EXCEPT ![c] = "done"]
  /\ streamRef' = c
  /\ camTracks' = [camTracks EXCEPT ![c] = "live"]
  /\ UNCHANGED <<isCameraOpen, facingMode, camStarted, consoleErrors, sessionVars, textVars, codecVars,
                 videoVars>>

\* A catch block that only reports.
CameraCatchReportOnly(open) == open

\* The catch block of startCamera: setIsCameraOpen(false).
CameraCatch(open) == FALSE

\* getUserMedia of startCamera invocation c rejects: the catch block runs.
CameraRejects(c) ==
  /\ Idle
  /\ camPc[c] = "getUserMedia"
  /\ camPc' = [camPc EXCEPT ![c] = "failed"]
  /\ consoleErrors' = Append(consoleErrors, "Camera access failed")
  /\ isCameraOpen' = CameraCatch(isCameraOpen)
  /\ UNCHANGED <<facingMode, streamRef, camStarted, camTracks, sessionVars, textVars, codecVars, videoVars>>

\* closeCamera: the CANCEL button of the preview, and handleTakePhoto.
CloseCamera ==
  /\ Idle
  /\ isCameraOpen
  /\ camTracks' = IF streamRef # 0
                  THEN [camTracks EXCEPT ![streamRef] = "stopped"] ELSE camTracks
  /\ streamRef' = 0
  /\ isCameraOpen' = FALSE
  /\ UNCHANGED <<facingMode, camStarted, camPc, consoleErrors, sessionVars, textVars, codecVars, videoVars>>

\* A timer set whatever isListening is.
VideoStreamingEffectCameraOnly(cam, lis) == cam

\* The video streaming effect, re-run with the render that follows a change
\* of isCameraOpen or isListening: its cleanup clears the interval, and the
\* interval is set again when both hold.
VideoStreamingEffect(cam, lis) == cam /\ lis

\* The interval of the video streaming effect exists.
IntervalSet == VideoStreamingEffect(isCameraOpen, isListening)

\* handleVideoFrame: the frame goes to the session the ref holds, if any.
HandleVideoFrame ==
  IF liveSessionRef # 0
  THEN /\ videoCalls' = [videoCalls EXCEPT ![liveSessionRef] = @ + 1]
       /\ videoSent' = [videoSent EXCEPT ![liveSessionRef] =
                          IF conn[liveSessionRef] = "open" THEN @ + 1 ELSE @]
  ELSE UNCHANGED <<videoCalls, videoSent>>

\* A tick of the video timer.  ready: videoRef.current.readyState === 4, which
\* takes a stream that was attached to the video element.
IntervalTick(ready) ==
  /\ Idle
  /\ IntervalSet
  /\ ticks < MaxVideo
  /\ ready => \E c \in Cameras : camPc[c] = "done"
  /\ ticks' = ticks + 1
  /\ IF ready
     THEN /\ videoEmitted' = videoEmitted + 1
          /\ HandleVideoFrame
     ELSE UNCHANGED <<videoEmitted, videoCalls, videoSent>>
  /\ UNCHANGED <<sessionVars, textVars, codecVars, camVars>>

\* ---------------------------------------------------------------- text chat
ConnectionRestored == Entry("model", Notice("[SYSTEM] CONNECTION RESTORED. ONLINE."))
ConnectionLost == Entry("error", Notice("[SYSTEM] CONNECTION LOST. OFFLINE MODE."))
CannotSend == Entry("error", Notice("OFFLINE: Cannot send message."))
ScreenCleared == Entry("model", Notice("SCREEN CLEARED."))
HelpText == Entry("model", Notice("[ISAAC] HELP PROTOCOL"))
CoreFailed == Entry("error", Notice("CRITICAL ERROR: AI Core failed to initialize."))
NotInitialized == Entry("error", Notice("ERROR: Chat not initialized."))
TransmissionError == Entry("error", Notice("TRANSMISSION ERROR"))

\* What the user submits: the two client commands and a text for the model.
Clear == Notice("clear")
Help == Notice("help")
Values == {Clear, Help, <<"a">>}

\* The 'online' event of the window.
HandleOnline ==
  /\ Idle
  /\ notices < MaxNotices
  /\ notices' = notices + 1
  /\ isOffline' = FALSE
  /\ messages' = Append(messages, ConnectionRestored)
  /\ UNCHANGED <<isListening, isLoading, bootIndex, refVars, transVars, playVars, invVars,
                 objVars, frameVars, histVars, clock>>
  /\ UNCHANGED <<chatRef, chatPc, responseText, responseIndex, sends>>
  /\ UNCHANGED <<camVars, videoVars, codecVars, typingVars>>

\* The 'offline' event of the window.
HandleOffline ==
  /\ Idle
  /\ notices < MaxNotices
  /\ notices' = notices + 1
  /\ isOffline' = TRUE
  /\ messages' = Append(messages, ConnectionLost)
  /\ UNCHANGED <<isListening, isLoading, bootIndex, refVars, transVars, playVars, invVars,
                 objVars, frameVars, histVars, clock>>
  /\ UNCHANGED <<chatRef, chatPc, responseText, responseIndex, sends>>
  /\ UNCHANGED <<camVars, videoVars, codecVars, typingVars>>

\* handleSend up to its await, for a message without an image; handleSubmit
\* calls it only while not loading.  ok: ai.chats.create does not throw.  One
\* invocation at a time is explored.
HandleSend(value, ok) ==
  /\ Idle
  /\ ~isLoading
  /\ chatPc = "idle"
  /\ sends < MaxSends
  /\ sends' = sends + 1
  /\ LET user == Append(messages, Entry("user", value)) IN
       IF isOffline
       THEN /\ messages' = Append(user, CannotSend)
            /\ UNCHANGED <<isLoading, chatRef, chatPc>>
       ELSE IF value = Clear
       THEN /\ messages' = <<ScreenCleared>>
            /\ UNCHANGED <<isLoading, chatRef, chatPc>>
       ELSE IF value = Help
       THEN /\ messages' = Append(user, HelpText)
            /\ UNCHANGED <<isLoading, chatRef, chatPc>>
       ELSE IF ~chatRef /\ ~ok
       THEN /\ messages' = Append(Append(user, CoreFailed), NotInitialized)
            /\ UNCHANGED <<isLoading, chatRef, chatPc>>
       ELSE /\ messages' = user
            /\ chatRef' = TRUE
            /\ isLoading' = TRUE
            /\ chatPc' = "sendMessageStream"
  /\ UNCHANGED <<isListening, isOffline, bootIndex, refVars, transVars, playVars, invVars,
                 objVars, frameVars, histVars, clock>>
  /\ UNCHANGED <<responseText, responseIndex, notices>>
  /\ UNCHANGED <<camVars, videoVars, codecVars, typingVars>>

\* The catch and the finally of handleSend.
SendCatch ==
  /\ messages' = Append(messages, TransmissionError)
  /\ isLoading' = FALSE
  /\ chatPc' = "idle"
  /\ responseIndex' = 0

\* sendMessageStream resolved: the entry of the response is appended, empty.
SendResolves ==
  /\ Idle
  /\ chatPc = "sendMessageStream"
  /\ responseText' = <<>>
  /\ messages' = Append(messages, Entry("model", <<>>))
  /\ responseIndex' = Len(messages) + 1
  /\ chatPc' = "streaming"
  /\ UNCHANGED <<isListening, isLoading, isOffline, bootIndex, refVars, transVars, playVars,
                 invVars, objVars, frameVars, histVars, clock>>
  /\ UNCHANGED <<chatRef, sends, notices>>
  /\ UNCHANGED <<camVars, videoVars, codecVars, typingVars>>

\* sendMessageStream rejected.
SendRejects ==
  /\ Idle
  /\ chatPc = "sendMessageStream"
  /\ SendCatch
  /\ UNCHANGED <<isListening, isOffline, bootIndex, refVars, transVars, playVars,
                 invVars, objVars, frameVars, histVars, clock>>
  /\ UNCHANGED <<chatRef, responseText, sends, notices>>
  /\ UNCHANGED <<camVars, videoVars, codecVars, typingVars>>

\* The updater of the stream loop: the last entry of the log becomes the
\* response so far.
SetLast(prevMessages, t) ==
  [prevMessages EXCEPT ![Len(prevMessages)] = Entry("model", t)]

\* One pass of the stream loop, with a chunk of text c.
Chunk(c) ==
  /\ Idle
  /\ chatPc = "streaming"
  /\ Len(responseText) < MaxChunks
  /\ responseText' = responseText \o c
  /\ messages' = SetLast(messages, responseText \o c)
  /\ UNCHANGED <<isListening, isLoading, isOffline, bootIndex, refVars, transVars, playVars,
                 invVars, objVars, frameVars, histVars, clock>>
  /\ UNCHANGED <<chatRef, chatPc, responseIndex, sends, notices>>
  /\ UNCHANGED <<camVars, videoVars, codecVars, typingVars>>

\* The stream is exhausted: the finally of handleSend.
StreamEnds ==
  /\ Idle
  /\ chatPc = "streaming"
  /\ isLoading' = FALSE
  /\ chatPc' = "idle"
  /\ responseIndex' = 0
  /\ UNCHANGED <<messages, isListening, isOffline, bootIndex, refVars, transVars, playVars,
                 invVars, objVars, frameVars, histVars, clock>>
  /\ UNCHANGED <<chatRef, responseText, sends, notices>>
  /\ UNCHANGED <<camVars, videoVars, codecVars, typingVars>>

\* The stream throws.
StreamFails ==
  /\ Idle
  /\ chatPc = "streaming"
  /\ SendCatch
  /\ UNCHANGED <<isListening, isOffline, bootIndex, refVars, transVars, playVars,
                 invVars, objVars, frameVars, histVars, clock>>
  /\ UNCHANGED <<chatRef, responseText, sends, notices>>
  /\ UNCHANGED <<camVars, videoVars, codecVars, typingVars>>

\* ------------------------------------------------------------ typing effect
\* The texts a message may hold.
Texts == UNION {[1..n -> Chars] : n \in 0..MaxText}

\* Mutant of Slice: one character more than asked for.
SliceBeyond(s, n) == SubSeq(s, 1, IF n + 1 <= Len(s) THEN n + 1 ELSE Len(s))

\* s.slice(0, n), for n >= 0.
Slice(s, n) == SubSeq(s, 1, IF n <= Len(s) THEN n ELSE Len(s))

\* The effect of useTypingEffect: it sets a timeout unless the typed text is
\* the full text.
TypingEffect(typed, full) == typed # full

\* A TypingMessageBubble is mounted with any text: the typed text is empty and
\* the effect has run once.
InitTyping ==
  /\ InitSession
  /\ data = <<>>
  /\ InitCodecIdle
  /\ fullText \in Texts
  /\ typedText = <<>>
  /\ typingTimer = TypingEffect(<<>>, fullText)
  /\ edits = 0

\* The message's content changes to t: the bubble renders again, the cleanup
\* of the effect clears the timeout and the effect runs with the new text.
SetFullText(t) ==
  /\ edits < MaxEdits
  /\ t # fullText
  /\ edits' = edits + 1
  /\ fullText' = t
  /\ typingTimer' = TypingEffect(typedText, t)
  /\ UNCHANGED <<typedText, chatVars, sessionVars, camVars, videoVars, codecVars>>

\* The timeout fires.  A changed typed text renders the bubble again and the
\* effect runs; an unchanged one renders nothing and leaves no timeout.
TypingTimeout ==
  /\ typingTimer
  /\ LET next == Slice(fullText, Len(typedText) + 1) IN
       /\ typedText' = next
       /\ typingTimer' = IF next # typedText THEN TypingEffect(next, fullText) ELSE FALSE
  /\ UNCHANGED <<fullText, edits, chatVars, sessionVars, camVars, videoVars, codecVars>>

\* ------------------------------------------------------------ the system
\* Messages of the playback path: audio, turn-complete, interrupted.
PlaybackMessages ==
  {Message(<<>>, <<>>, a, tc, int) :
     a \in 0..MaxDur, tc \in BOOLEAN, int \in BOOLEAN} \ {Message(<<>>, <<>>, 0, FALSE, FALSE)}

\* Messages of the transcription path: fragments and turn-complete.
TranscriptionMessages ==
  {Message(i, o, 0, tc, FALSE) :
     i \in Fragments \cup {<<>>}, o \in Fragments \cup {<<>>}, tc \in BOOLEAN}
  \ {Message(<<>>, <<>>, 0, FALSE, FALSE)}

\* Messages of the dispatcher: every combination of a user fragment, a model
\* fragment, a buffer of one tick, turn-complete and interrupted.
DispatchMessages ==
  {Message(i, o, a, tc, int) :
     i \in {<<>>, <<"a">>}, o \in {<<>>, <<"a">>}, a \in 0..1,
     tc \in BOOLEAN, int \in BOOLEAN} \ {Message(<<>>, <<>>, 0, FALSE, FALSE)}

\* Messages of every branch, and those with audio with the payload cut short.
TruncatedMessages ==
  DispatchMessages \cup {Truncated(m) : m \in {d \in DispatchMessages : d.audio > 0}}

\* One buffer of one tick, one user fragment, one model fragment.
RestartMessages ==
  { Message(<<>>, <<>>, 1, FALSE, FALSE),
    Message(<<"a">>, <<>>, 0, FALSE, FALSE),
    Message(<<>>, <<"a">>, 0, FALSE, FALSE) }

\* One buffer of one tick, enough to fill the live-set.
LifecycleMessages == {Message(<<>>, <<>>, 1, FALSE, FALSE)}

\* The session controller: every start, stop, failure and close, with up to
\* MaxSessions invocations of startListening and one playback unit.
Next ==
  \/ RunSequence
  \/ ToggleListening
  \/ \E s \in Sessions : GetUserMediaResolves(s)
  \/ \E s \in Sessions : GetUserMediaRejects(s)
  \/ \E s \in Sessions : ConnectRejects(s)
  \/ \E s \in Sessions : OnOpen(s)
  \/ \E s \in Sessions : ConnectResolves(s)
  \/ \E s \in Sessions : captured[s] < MaxFrames /\ AudioProcess(s)
  \/ \E s \in Sessions : OnAudioProcess(s)
  \/ \E s \in Sessions : OnError(s)
  \/ \E s \in Sessions : OnClose(s)
  \/ \E s \in Sessions : AudioContextClosed(s)
  \/ \E s \in Sessions, m \in LifecycleMessages : Len(units) < 1 /\ OnMessage(s, m)
  \/ OnMessageResume

Spec == Init /\ [][Next]_vars

\* The playback scheduler: one session that opens without failure and that
\* the user may stop; every playback message, delivered once the handshake
\* has resolved, the clock and the 'ended' listeners.
NextPlay ==
  \/ RunSequence
  \/ (isListening \/ started = 0) /\ ToggleListening
  \/ \E s \in Sessions : GetUserMediaResolves(s)
  \/ \E s \in Sessions : OnOpen(s)
  \/ \E s \in Sessions : ConnectResolves(s)
  \/ \E s \in Sessions, m \in PlaybackMessages : pc[s] = "done" /\ OnMessage(s, m)
  \/ OnMessageResume
  \/ \E u \in 1..MaxUnits : Ended(u)
  \/ \E s \in Sessions : Tick(s)

SpecPlay == Init /\ [][NextPlay]_vars

\* The transcription reconciler: one session that opens without failure and
\* that the user may stop, with every transcription message, delivered once
\* the handshake has resolved.
NextTrans ==
  \/ RunSequence
  \/ (isListening \/ started = 0) /\ ToggleListening
  \/ \E s \in Sessions : GetUserMediaResolves(s)
  \/ \E s \in Sessions : OnOpen(s)
  \/ \E s \in Sessions : ConnectResolves(s)
  \/ \E s \in Sessions, m \in TranscriptionMessages : pc[s] = "done" /\ OnMessage(s, m)

SpecTrans == Init /\ [][NextTrans]_vars

\* The dispatcher of onmessage: one session that opens without failure and
\* that the user may stop, with every combination of the parts of a message.
NextDispatch ==
  \/ RunSequence
  \/ (isListening \/ started = 0) /\ ToggleListening
  \/ \E s \in Sessions : GetUserMediaResolves(s)
  \/ \E s \in Sessions : OnOpen(s)
  \/ \E s \in Sessions : ConnectResolves(s)
  \/ \E s \in Sessions, m \in DispatchMessages : pc[s] = "done" /\ OnMessage(s, m)
  \/ OnMessageResume

SpecDispatch == Init /\ [][NextDispatch]_vars

\* The capture pipeline: one session, started once, that the user may stop
\* and whose socket may fail or close, with up to MaxCapture frames.
NextFrames ==
  \/ RunSequence
  \/ (isListening \/ started = 0) /\ ToggleListening
  \/ \E s \in Sessions : GetUserMediaResolves(s)
  \/ \E s \in Sessions : OnOpen(s)
  \/ \E s \in Sessions : ConnectResolves(s)
  \/ \E s \in Sessions : captured[s] < MaxCapture /\ AudioProcess(s)
  \/ \E s \in Sessions : OnAudioProcess(s)
  \/ \E s \in Sessions : OnError(s)
  \/ \E s \in Sessions : OnClose(s)
  \/ \E s \in Sessions : AudioContextClosed(s)

SpecFrames == Init /\ [][NextFrames]_vars

\* Teardown: one session, started once, with capture, playback of one-tick
\* buffers and the 'ended' listeners, that the user may stop and whose
\* socket may fail or close.
NextTeardown ==
  \/ RunSequence
  \/ (isListening \/ started = 0) /\ ToggleListening
  \/ \E s \in Sessions : GetUserMediaResolves(s)
  \/ \E s \in Sessions : OnOpen(s)
  \/ \E s \in Sessions : ConnectResolves(s)
  \/ \E s \in Sessions : captured[s] < MaxCapture /\ AudioProcess(s)
  \/ \E s \in Sessions : OnAudioProcess(s)
  \/ \E s \in Sessions : OnError(s)
  \/ \E s \in Sessions : OnClose(s)
  \/ \E s \in Sessions : AudioContextClosed(s)
  \/ \E s \in Sessions, m \in LifecycleMessages : OnMessage(s, m)
  \/ OnMessageResume
  \/ \E u \in 1..MaxUnits : Ended(u)
  \/ \E s \in Sessions : Tick(s)

SpecTeardown == Init /\ [][NextTeardown]_vars

\* Live vision: one session, started once, that the user may stop and whose
\* socket may fail or close, with the camera preview and the video timer.
NextVideo ==
  \/ RunSequence
  \/ (isListening \/ started = 0) /\ ToggleListening
  \/ \E s \in Sessions : GetUserMediaResolves(s)
  \/ \E s \in Sessions : OnOpen(s)
  \/ \E s \in Sessions : ConnectResolves(s)
  \/ \E s \in Sessions : OnError(s)
  \/ \E s \in Sessions : OnClose(s)
  \/ HandleCameraClick
  \/ HandleSwitchCamera
  \/ \E c \in Cameras : CameraResolves(c)
  \/ \E c \in Cameras : CameraRejects(c)
  \/ CloseCamera
  \/ \E ready \in BOOLEAN : IntervalTick(ready)

SpecVideo == Init /\ [][NextVideo]_vars

\* Every startListening so far was stopped and its socket has closed.
Settled == \A s \in 1..started : conn[s] = "closed"

\* Restart: sessions one after the other.  Each opens without failure, is
\* stopped by the user from Open, and the next starts once its socket has
\* closed.
NextRestart ==
  \/ RunSequence
  \/ ((\E s \in Sessions : Open(s)) \/ (~isListening /\ Settled)) /\ ToggleListening
  \/ \E s \in Sessions : GetUserMediaResolves(s)
  \/ \E s \in Sessions : OnOpen(s)
  \/ \E s \in Sessions : ConnectResolves(s)
  \/ \E s \in Sessions : conn[s] = "closing" /\ OnClose(s)
  \/ \E s \in Sessions, m \in RestartMessages : pc[s] = "done" /\ OnMessage(s, m)
  \/ OnMessageResume
  \/ \E s \in Sessions : Tick(s)

SpecRestart == Init /\ [][NextRestart]_vars

\* The text chat: the startup sequence, handleSend with its stream, and the
\* online and offline events of the window.
NextChat ==
  \/ RunSequence
  \/ \E value \in Values, ok \in BOOLEAN : HandleSend(value, ok)
  \/ SendResolves
  \/ SendRejects
  \/ \E c \in Fragments : Chunk(c)
  \/ StreamEnds
  \/ StreamFails
  \/ HandleOnline
  \/ HandleOffline

SpecChat == Init /\ [][NextChat]_vars

\* useTypingEffect of one mounted bubble: its text changes up to MaxEdits
\* times, and a timeout that is set fires.
NextTyping ==
  \/ \E t \in Texts : SetFullText(t)
  \/ TypingTimeout

SpecTyping == InitTyping /\ [][NextTyping]_vars /\ WF_vars(TypingTimeout)

\* Truncated payloads: one session that opens without failure and that the
\* user may stop; every message, whole or with its audio payload cut short.
NextTruncated ==
  \/ RunSequence
  \/ (isListening \/ started = 0) /\ ToggleListening
  \/ \E s \in Sessions : GetUserMediaResolves(s)
  \/ \E s \in Sessions : OnOpen(s)
  \/ \E s \in Sessions : ConnectResolves(s)
  \/ \E s \in Sessions, m \in TruncatedMessages : pc[s] = "done" /\ OnMessage(s, m)
  \/ OnMessageResume

SpecTruncated == Init /\ [][NextTruncated]_vars

\* The codec: an array of samples is encoded, and the bytes, whole or cut
\* short, are decoded.
NextCodec ==
  \/ CreateBlob
  \/ \E n \in 1..(2 * MaxSamples) : DecodeAudio(n)

SpecCodec == InitCodec /\ [][NextCodec]_vars

\* -------------------------------------------------------------- properties
\* The clock time at which unit k ends.
EndOf(k) == units[k].start + units[k].dur

\* C1: an audio payload is started at max(nextStartTime, currentTime) as
\* they stand when the handler reads them; unless the same message also
\* carries interrupted, nextStartTime then is that start plus the buffer's
\* duration and the unit is in the live-set.
C1_AudioScheduledAtCursor ==
  [][/\ (Idle /\ ~Idle') =>
          nextStartTimeRef' = Max(nextStartTimeRef, clock[outputAudioContextRef])
     /\ (~Idle /\ Idle') =>
          LET u == Len(units')
          IN /\ u = Len(units) + 1
             /\ units'[u].start = Max(decoding.before, decoding.arrival)
             /\ units'[u].dur = decoding.dur
             /\ ~decoding.interrupted =>
                  /\ nextStartTimeRef' = units'[u].start + units'[u].dur
                  /\ u \in outputSourcesRef'
                  /\ units'[u].st = "started"]_vars

\* C1 witness: a live unit that the clamp moved up to the clock, with the
\* cursor at its end.
C1_Witness ==
  \E u \in outputSourcesRef :
     /\ units[u].st = "started"
     /\ units[u].start = units[u].arrival
     /\ units[u].start > 0
     /\ nextStartTimeRef = EndOf(u)

\* C2: a unit scheduled after another with no interrupt in between starts
\* no earlier than the other ends: exactly at its end when the payload
\* arrived by then, and at the arrival clock when it arrived later.
C2_NoOverlap ==
  \A k \in 1..(Len(units) - 1) :
     units[k + 1].after = "chained" =>
        /\ units[k + 1].start >= EndOf(k)
        /\ units[k + 1].arrival <= EndOf(k) => units[k + 1].start = EndOf(k)
        /\ units[k + 1].arrival > EndOf(k) => units[k + 1].start = units[k + 1].arrival

\* C2 witness: a back-to-back pair whose payload arrived before the first
\* unit had ended.
C2_Witness ==
  \E k \in 1..(Len(units) - 1) :
     /\ units[k + 1].after = "chained"
     /\ units[k + 1].arrival < EndOf(k)
     /\ units[k + 1].arrival > units[k].start

\* C2 second case: a pair whose second payload arrived late.
C2_WitnessLate ==
  \E k \in 1..(Len(units) - 1) :
     units[k + 1].after = "chained" /\ units[k + 1].arrival > EndOf(k)

\* An interrupted event is handled in this step.
InterruptStep ==
  sched' = "interrupted" /\ (sched # "interrupted" \/ (~Idle /\ Idle'))

\* C3: handling interrupted stops every unit of the live-set, empties the
\* live-set and sets nextStartTime to 0; the first unit scheduled after it
\* starts at the clock time its payload arrived at.
C3_InterruptResets ==
  [][/\ InterruptStep =>
          /\ outputSourcesRef' = {}
          /\ nextStartTimeRef' = 0
          /\ \A u \in outputSourcesRef : units'[u].st # "started"
          /\ ~Idle => units'[Len(units')].st # "started"
     /\ \A k \in DOMAIN units' :
          units'[k].after = "interrupted" => units'[k].start = units'[k].arrival]_vars

\* C3 witness: a unit played first after an interrupt, started at the clock
\* and before the end of the unit the interrupt stopped.
C3_Witness ==
  \E k \in 2..Len(units) :
     /\ units[k].after = "interrupted"
     /\ units[k - 1].st \in {"stopped", "ended"}
     /\ units[k].start < EndOf(k - 1)
     /\ units[k].start > 0

\* Every resource of session s is released and the controller is idle.
TornDown(s) ==
  /\ conn[s] \in {"closing", "closed"}
  /\ tracks[s] = "stopped"
  /\ inCtx[s] \in {"closing", "closed"}
  /\ outCtx[s] \in {"closing", "closed"}
  /\ outputSourcesRef = {}
  /\ liveSessionRef = 0
  /\ ~isListening

\* C4: when the remote end closes the socket of a session the controller is
\* Open on, the onclose callback tears the session down: the tracks are
\* stopped, both contexts closed, the live-set emptied, the handle cleared
\* and isListening false.
C4_RemoteCloseTearsDown ==
  [][\A s \in Sessions : (Open(s) /\ conn'[s] = "closed") => TornDown(s)']_vars

\* C5: a remote error or a remote close while Open appends exactly one
\* entry to the log: onerror appends one, the close event that follows an
\* error or a local close appends none, and a remote close appends one.
C5_OneMessagePerRemoteEnd ==
  [][\A s \in Sessions :
       /\ (conn[s] \in {"connecting", "open"} /\ conn'[s] = "failed")
            => Len(messages') = Len(messages) + 1
       /\ (conn[s] \in {"closing", "failed"} /\ conn'[s] = "closed")
            => Len(messages') = Len(messages)
       /\ (Open(s) /\ conn'[s] = "closed")
            => Len(messages') = Len(messages) + 1]_vars

\* C6: an invocation that was still connecting when the user stopped holds
\* nothing once its pending operations have resolved: its socket is not
\* open, its tracks are not live, its tap is not wired, it sent no frame.
C6_StopWhileConnectingReleases ==
  \A s \in cancelled :
     pc[s] \in {"done", "failed"} =>
        /\ conn[s] \notin {"connecting", "open"}
        /\ tracks[s] # "live"
        /\ procNode[s] # "connected"
        /\ sent[s] = 0

\* C7: no call of stopListening invokes a release operation on a resource
\* that an earlier call has released.
C7_TeardownIdempotent == ~redundant

\* C8: a user stop from Open tears the session down and appends exactly the
\* 'VOICE CHANNEL CLOSED.' notice, a model-role entry; the close event that
\* session.close() causes appends nothing more.
C8_UserStopOneNotice ==
  [][\A s \in Sessions :
       /\ (Open(s) /\ stoppedOpen' # stoppedOpen)
            => /\ TornDown(s)'
               /\ messages' = Append(messages, VoiceClosed)
       /\ (s \in stoppedOpen /\ conn[s] = "closing" /\ conn'[s] = "closed")
            => messages' = messages]_vars

\* C8 witness: a session the user stopped from Open has had its close event.
C8_Witness == \E s \in stoppedOpen : conn[s] = "closed"

\* The start attempt s fails in this step: its catch block runs, or its
\* socket fails before it opened.
StartFails(s) ==
  \/ Pending(s) /\ pc'[s] = "failed"
  \/ conn[s] = "connecting" /\ conn'[s] = "failed"

\* C9: a failed start appends exactly one error-role entry, leaves no track
\* of its stream live and none of its contexts running, and ends with
\* isListening and isLoading false.
C9_FailedStartReleases ==
  [][\A s \in Sessions :
       StartFails(s) =>
          /\ Len(messages') = Len(messages) + 1
          /\ messages'[Len(messages')].role = "error"
          /\ tracks'[s] # "live"
          /\ inCtx'[s] # "running"
          /\ outCtx'[s] # "running"
          /\ ~isListening'
          /\ ~isLoading']_vars

\* The number of user entries of a log.
UserEntries(log) == Cardinality({j \in 1..Len(log) : log[j].role = "user"})

\* C10: after every input fragment the newest user entry holds all the
\* fragments received since the last turn-complete; when the fragment
\* follows another one with no turn-complete and no model entry in
\* between, it is the same entry and the log has no more user entries.
C10_UserFragmentsOneEntry ==
  [][\A s \in Sessions, m \in TranscriptionMessages :
        (/\ m.input # <<>>
         /\ inputSinceTurn' = (IF m.turnComplete THEN <<>> ELSE inputSinceTurn \o m.input)
         /\ OnMessage(s, m)) =>
           LET i == LastIndexOf(messages', "user")
           IN /\ i # 0
              /\ messages'[i] = Entry("user", inputSinceTurn \o m.input)
              /\ (userRun # 0 /\ LastIndexOf(messages, "model") < userRun) =>
                    /\ i = userRun
                    /\ UserEntries(messages') = UserEntries(messages)]_vars

\* C10 witness: one user entry grown in place from two fragments.
C10_Witness ==
  /\ userRun # 0
  /\ Len(inputSinceTurn) = 2
  /\ messages[userRun] = Entry("user", inputSinceTurn)
  /\ UserEntries(messages) = 1

\* C11: the first model fragment after a turn-complete appends the entry
\* {model, fragment} to the log as the input branch left it, and changes no
\* entry that was there.
C11_FirstModelFragmentAppends ==
  [][\A s \in Sessions, m \in TranscriptionMessages :
        (/\ m.output # <<>>
         /\ afterTurn
         /\ currentOutputTranscriptionRef = <<>>
         /\ OnMessage(s, m)) =>
           messages' = Append(LogIn(m), Entry("model", m.output))]_vars

\* C12: the first user fragment after a turn-complete appends the entry
\* {user, fragment} and changes no user entry that was there.
C12_FirstUserFragmentAppends ==
  [][\A s \in Sessions, m \in TranscriptionMessages :
        (/\ m.input # <<>>
         /\ afterTurn
         /\ currentInputTranscriptionRef = <<>>
         /\ OnMessage(s, m)) =>
           /\ Len(messages') > Len(messages)
           /\ messages'[Len(messages) + 1] = Entry("user", m.input)
           /\ \A j \in 1..Len(messages) :
                messages[j].role = "user" => messages'[j] = messages[j]]_vars

\* The role a message with one fragment speaks for, and the other role.
RoleOf(m) == IF m.input # <<>> THEN "user" ELSE "model"
OtherRole(r) == IF r = "user" THEN "model" ELSE "user"

\* C13: a fragment of role R overwrites an entry only if that entry is the
\* newest R entry and newer than the newest entry of the other role;
\* otherwise the fragment appends a new R entry and changes nothing.
C13_OverwriteOnlyNewestOfRole ==
  [][\A s \in Sessions, m \in TranscriptionMessages :
        (/\ (m.input = <<>>) # (m.output = <<>>)
         /\ OnMessage(s, m)) =>
           LET R == RoleOf(m)
               last == LastIndexOf(messages, R)
               live == last > LastIndexOf(messages, OtherRole(R))
           IN /\ \A j \in 1..Len(messages) :
                   messages'[j] # messages[j] => (j = last /\ live)
              /\ ~live => /\ Len(messages') = Len(messages) + 1
                          /\ messages'[Len(messages')].role = R]_vars

\* C14: the log never shrinks, and a step changes an entry that was there
\* only if a fragment of the current turn wrote that entry.
C14_LogAppendOnly ==
  [][/\ Len(messages') >= Len(messages)
     /\ \A j \in 1..Len(messages) :
          messages'[j] # messages[j] => (j # 0 /\ j \in {userRun, modelRun})]_vars

\* The messages that carry nothing but turn-complete, or nothing but
\* interrupted.
OnlyTurnComplete == Message(<<>>, <<>>, 0, TRUE, FALSE)
OnlyInterrupted == Message(<<>>, <<>>, 0, FALSE, TRUE)

\* C15: handling turn-complete empties both accumulators and leaves the
\* cursor, the live-set and the units alone; handling interrupted stops the
\* live units, empties the live-set, resets the cursor and leaves both
\* accumulators and the log alone.
C15_DispatchFrames ==
  [][\A s \in Sessions :
       /\ OnMessage(s, OnlyTurnComplete) =>
            /\ currentInputTranscriptionRef' = <<>>
            /\ currentOutputTranscriptionRef' = <<>>
            /\ UNCHANGED <<nextStartTimeRef, outputSourcesRef, units, messages>>
       /\ OnMessage(s, OnlyInterrupted) =>
            /\ outputSourcesRef' = {}
            /\ nextStartTimeRef' = 0
            /\ \A u \in outputSourcesRef : units'[u].st # "started"
            /\ UNCHANGED <<currentInputTranscriptionRef, currentOutputTranscriptionRef,
                           messages>>]_vars

\* C15 witness: an interrupted was handled with both accumulators loaded
\* and a unit stopped by it, and nothing of the text was lost.
C15_Witness ==
  /\ sched = "interrupted"
  /\ currentInputTranscriptionRef # <<>>
  /\ currentOutputTranscriptionRef # <<>>
  /\ \E u \in DOMAIN units : units[u].st = "stopped"
  /\ isListening

\* C16: nextStartTime never decreases, except in the step that handles an
\* interrupted event, which sets it to 0.
C16_CursorMonotonic ==
  [][\/ nextStartTimeRef' >= nextStartTimeRef
     \/ InterruptStep /\ nextStartTimeRef' = 0]_vars

\* C16 witness: the cursor was advanced past 0 by a unit and an interrupted
\* event has just reset it.
C16_Witness ==
  /\ sched = "interrupted"
  /\ nextStartTimeRef = 0
  /\ \E u \in DOMAIN units : units[u].st = "stopped" /\ EndOf(u) > 0
  /\ isListening

\* C17: when source.start is called the start time is not before the
\* current time of the clock the unit plays on.
C17_StartNotInPast ==
  [][(~Idle /\ Idle') =>
        units'[Len(units')].start >= clock[decoding.ctx]]_vars

\* C18: of two units with no interrupted event handled between their
\* payloads, the one whose payload arrived first starts strictly earlier.
C18_ArrivalOrder ==
  \A j \in DOMAIN units : \A k \in DOMAIN units :
     (j < k /\ \A i \in (j + 1)..k : units[i].after = "chained") =>
        units[j].start < units[k].start

\* C18 witness: two units in the live-set at once, the second scheduled
\* behind the first.
C18_Witness ==
  /\ Len(units) >= 2
  /\ units[2].after = "chained"
  /\ {1, 2} \subseteq outputSourcesRef
  /\ units[1].st = "started" /\ units[2].st = "started"

\* The frames 1..n in capture order.
Frames(n) == [i \in 1..n |-> i]

\* C19: the frames sendRealtimeInput was called with, followed by those that
\* wait for the session promise, are the captured frames in capture order,
\* each once; no call is made and no frame is delivered before onopen ran.
C19_FramesInCaptureOrder ==
  \A s \in Sessions :
     /\ calls[s] \o pendingSends[s] = Frames(captured[s])
     /\ (calls[s] # <<>> \/ sent[s] > 0) => conn[s] \notin {"none", "connecting"}

\* C19 witness: three frames were captured, sendRealtimeInput was called
\* with each in capture order and the open socket took all three.
C19_Witness ==
  \E s \in Sessions :
     /\ calls[s] = Frames(3)
     /\ sent[s] = 3
     /\ pendingSends[s] = <<>>

\* What the session controller holds: the React state and the refs.
SessionState ==
  <<messages, isListening, isLoading, isOffline, refVars, outputSourcesRef,
    nextStartTimeRef, currentInputTranscriptionRef, currentOutputTranscriptionRef>>

\* A capture or playback callback of session s runs: its onaudioprocess
\* handler, or the 'ended' listener of a unit of its output context.
CallbackOf(s) ==
  \/ OnAudioProcess(s)
  \/ \E u \in DOMAIN units : units[u].ctx = s /\ Ended(u)

\* C20: for a session that was Open when stopListening ran, the socket takes
\* no further frame, no capture or playback callback changes what the
\* controller holds, and the tap is disconnected while its input context
\* is no longer running.
C20_TornDownSessionSilent ==
  [][\A s \in tornOpen :
        /\ sent'[s] = sent[s]
        /\ CallbackOf(s) => UNCHANGED SessionState
        /\ procNode[s] = "disconnected" /\ inCtx[s] # "running"]_vars

\* C20 witness: a frame captured before the stop was handed to
\* sendRealtimeInput after it, and a stopped unit's listener has run.
C20_Witness ==
  \E s \in tornOpen :
     /\ Len(calls[s]) > sent[s]
     /\ sent[s] > 0
     /\ \E u \in DOMAIN units :
           /\ units[u].ctx = s /\ units[u].st = "ended"
           /\ clock[s] < EndOf(u)
     /\ inCtx[s] = "closed"

\* C21: sendRealtimeInput is called with a video frame only on a session
\* whose socket is open.
C21_VideoOnlyWhileOpen ==
  [][\A s \in Sessions :
        videoCalls'[s] > videoCalls[s] => conn[s] = "open"]_vars

\* C22: the video timer ticks only while the camera preview is open and the
\* session is listening, and a tick on which the video is not ready changes
\* nothing but the count of ticks.
C22_TimerOnlyWhileBoth ==
  [][ticks' > ticks =>
        /\ isCameraOpen /\ isListening
        /\ videoEmitted' = videoEmitted
             => UNCHANGED <<sessionVars, camVars, videoCalls, videoSent>>]_vars

\* C22 witness: the timer ticked with the video not ready, then with a
\* frame, and the preview was closed afterwards.
C22_Witness ==
  /\ ticks = 2
  /\ videoEmitted = 1
  /\ ~isCameraOpen
  /\ isListening

\* C23: when getUserMedia of startCamera rejects, console.error is called
\* once, the invocation ends in its catch block and the preview is closed.
C23_CameraFailureCloses ==
  [][\A c \in Cameras :
        (camPc[c] = "getUserMedia" /\ camPc'[c] = "failed") =>
           /\ ~isCameraOpen'
           /\ Len(consoleErrors') = Len(consoleErrors) + 1]_vars

\* C23 witness: a camera switch failed after the tracks of the stream in
\* use were stopped, and the preview is closed.
C23_Witness ==
  /\ camPc[1] = "done"
  /\ camTracks[1] = "stopped"
  /\ camPc[2] = "failed"
  /\ streamRef = 1
  /\ ~isCameraOpen

Abs(v) == IF v >= 0 THEN v ELSE -v

\* The whole payload was decoded.
RoundTrip == Len(audioBuffer.channelData) = Len(data)

\* C24: decoding what createBlob made gives, for each sample, a value within
\* one quantization step of the sample.
C24_RoundTripWithinOneStep ==
  RoundTrip =>
     \A i \in DOMAIN data :
        Abs(audioBuffer.channelData[i] - data[i]) <= Resolution

\* C25: the 16-bit value createBlob stores for a sample is an integer
\* nearest to the sample times 32768, not that integer modulo 2^16.
C25_EncodeRounds ==
  pcm # <<>> =>
     \A i \in DOMAIN data :
        2 * Abs(Int16At(pcm, i) * Resolution - data[i]) <= Resolution

\* C26: when the handler of a message with audio ends, the turnComplete
\* and interrupted branches of that message have run, also when the payload
\* was cut to an odd number of bytes.
C26_TruncatedPayloadHandled ==
  [][(~Idle /\ Idle') =>
        /\ decoding.turnComplete =>
              /\ currentInputTranscriptionRef' = <<>>
              /\ currentOutputTranscriptionRef' = <<>>
        /\ decoding.interrupted =>
              /\ outputSourcesRef' = {}
              /\ nextStartTimeRef' = 0]_vars

\* C27: the live-set holds exactly the units that were started and have
\* neither ended nor been stopped.
C27_LiveSetExact ==
  outputSourcesRef = {u \in DOMAIN units : units[u].st = "started"}

\* C27 witness: a unit stopped by an interrupt has had its 'ended' listener
\* run, and a unit started after the interrupt is alone in the live-set.
C27_Witness ==
  /\ Len(units) = 2
  /\ units[1].st = "ended" /\ clock[units[1].ctx] < EndOf(1)
  /\ units[2].st = "started" /\ units[2].after = "interrupted"
  /\ outputSourcesRef = {2}

\* C28: at most one socket is open at any time.
C28_OneSessionOpen ==
  Cardinality({s \in Sessions : conn[s] = "open"}) <= 1

\* C29: in a session started after an earlier one was stopped, the first
\* unit on the new output context starts at the time its clock read when the
\* payload arrived.
C29_FirstUnitAtNewClock ==
  [][(~Idle /\ Idle' /\ Len(units') > Len(units)) =>
        LET u == units'[Len(units')]
        IN (/\ tornOpen # {}
            /\ u.ctx \notin tornOpen
            /\ \A j \in DOMAIN units : units[j].ctx # u.ctx)
              => u.start = u.arrival]_vars

\* C30: both transcription accumulators are empty when startListening runs.
C30_AccumulatorsEmptyAtStart ==
  [][started' > started =>
        /\ currentInputTranscriptionRef = <<>>
        /\ currentOutputTranscriptionRef = <<>>]_vars

\* C31: a chunk of a streaming response changes only the entry that was
\* appended for that response; every other entry of the log, and the length
\* of the log, stay as they were.
C31_ChunkUpdatesOwnEntry ==
  [][(\E c \in Fragments : Chunk(c)) =>
        /\ Len(messages') = Len(messages)
        /\ \A i \in 1..Len(messages) :
              i # responseIndex => messages'[i] = messages[i]]_vars

\* p is a prefix of s.
IsPrefix(p, s) == Len(p) <= Len(s) /\ SubSeq(s, 1, Len(p)) = p

\* C32: after every step of the timer the typed text is a prefix of the
\* current full text and is at most one character longer than before; and
\* once the full text stays the same, the typed text comes to equal it, with
\* no timeout pending, and stays so.
C32_TypingConverges ==
  /\ [][TypingTimeout =>
          /\ IsPrefix(typedText', fullText')
          /\ Len(typedText') <= Len(typedText) + 1]_vars
  /\ \A t \in Texts :
        <>[](fullText = t) => <>[](typedText = t /\ ~typingTimer)

\* C32 witness: the text has changed MaxEdits times, the last time to a text
\* of full length, and the typed text has reached it with no timeout pending.
C32_Witness ==
  /\ edits = MaxEdits
  /\ Len(fullText) = MaxText
  /\ typedText = fullText
  /\ ~typingTimer

====
